---- MODULE Spec2Model ----
(***************************************************************************)
(* Model of the Jules API SDK request pipeline: the facade (JulesClient),  *)
(* the validated-request executor (requestWithValidation) and the retry    *)
(* interceptor installed by createHttpClient.                              *)
(*                                                                         *)
(* Strings the code computes on (prompts, Retry-After values, urls) are     *)
(* sequences of one-character strings so that trim and parseInt are        *)
(* computed, not assumed; strings of payloads, which are only compared and *)
(* measured, are TLA+ strings.  Time is in milliseconds.                   *)
(***************************************************************************)
EXTENDS Integers, Sequences, FiniteSets, TLC

VARIABLES
    retrySettings,  \* { ...DEFAULT_RETRY_CONFIG, ...retryConfig }
    now,            \* wall clock, ms (Date.now())
    pc,             \* per call: "idle" | "inflight" | "sleeping" | "done"
    op,             \* per call: the facade method that was called
    args,           \* per call: the arguments the method was called with
    schema,         \* per call: name of the response schema ("none" = no validation)
    config,         \* per call: the axios request config, with _retryCount
    sent,           \* per call: the requests put on the wire, in order
    error,          \* per call: the AxiosError of the last failed attempt
    delayMs,        \* per call: delay computed for the pending retry
    wakeAt,         \* per call: time at which sleep(delayMs) resolves
    failedAt,       \* per call: time at which the last failure was handled
    resData,        \* per call: res.data, the body of the 2xx response
    outcome,        \* per call: "pending" | "resolved" | "rejected"
    result,         \* per call: the value the promise resolved with
    thrown          \* per call: the error the promise rejected with

vars == <<retrySettings, now, pc, op, args, schema, config, sent, error, delayMs,
          wakeAt, failedAt, resData, outcome, result, thrown>>

callVars == <<pc, op, args, schema, config, sent, error, delayMs, wakeAt, failedAt,
              resData, outcome, result, thrown>>

-----------------------------------------------------------------------------
(* Bounds of the model *)

MaxRetriesBound == 2     \* maxRetries is drawn from 0..MaxRetriesBound
MaxPromptLen == 2        \* prompts are strings of at most this many characters
MaxIdleTicks == 2        \* the clock ticks at most this often while nothing sleeps

\* the calls made through one client, and the call Spec follows on its own
Calls == {"c1", "c2"}
OneCall == {"c1"}

Min(a, b) == IF a < b THEN a ELSE b
Max(a, b) == IF a > b THEN a ELSE b

RECURSIVE Pow2(_)
Pow2(n) == IF n <= 0 THEN 1 ELSE 2 * Pow2(n - 1)

-----------------------------------------------------------------------------
(* Strings *)

Whitespace == {" ", "\t", "\n"}
Chars == {" ", "a"}
Digits == {"0", "1", "2", "3", "4", "5", "6", "7", "8", "9"}

DigitValue(ch) ==
    CASE ch = "0" -> 0 [] ch = "1" -> 1 [] ch = "2" -> 2 [] ch = "3" -> 3
      [] ch = "4" -> 4 [] ch = "5" -> 5 [] ch = "6" -> 6 [] ch = "7" -> 7
      [] ch = "8" -> 8 [] ch = "9" -> 9

StringsUpTo(n) == UNION { [1..k -> Chars] : k \in 0..n }

RECURSIVE TrimStart(_)
TrimStart(s) ==
    IF s # <<>> /\ Head(s) \in Whitespace THEN TrimStart(Tail(s)) ELSE s

RECURSIVE TrimEnd(_)
TrimEnd(s) ==
    IF s # <<>> /\ s[Len(s)] \in Whitespace
    THEN TrimEnd(SubSeq(s, 1, Len(s) - 1))
    ELSE s

\* String.prototype.trim
Trim(s) == TrimEnd(TrimStart(s))

\* parseInt(s, 10): leading whitespace is skipped, an optional sign is read,
\* then the longest run of decimal digits; NaN when that run is empty.
RECURSIVE DigitRun(_)
DigitRun(s) ==
    IF s # <<>> /\ Head(s) \in Digits THEN <<Head(s)>> \o DigitRun(Tail(s)) ELSE <<>>

RECURSIVE DecimalValue(_)
DecimalValue(ds) ==
    IF ds = <<>> THEN 0
    ELSE 10 * DecimalValue(SubSeq(ds, 1, Len(ds) - 1)) + DigitValue(ds[Len(ds)])

NaN == [nan |-> TRUE, n |-> 0]
Num(n) == [nan |-> FALSE, n |-> n]

parseInt(s) ==
    LET t == TrimStart(s)
        signed == t # <<>> /\ Head(t) \in {"-", "+"}
        body == IF signed THEN Tail(t) ELSE t
        ds == DigitRun(body)
    IN  IF ds = <<>> THEN NaN
        ELSE Num(IF signed /\ Head(t) = "-" THEN 0 - DecimalValue(ds) ELSE DecimalValue(ds))

\* An HTTP-date is written here as "@" followed by its time in seconds since the
\* epoch (it starts with a non-digit, as every HTTP-date format does).
HttpDate(sec) == <<"@">> \o sec

\* new Date(s).getTime(): NaN unless s is a date string
DateGetTime(s) ==
    IF s # <<>> /\ Head(s) = "@" /\ Tail(s) # <<>> /\ DigitRun(Tail(s)) = Tail(s)
    THEN Num(DecimalValue(Tail(s)) * 1000)
    ELSE NaN

-----------------------------------------------------------------------------
(* JSON values *)

JUndefined == [t |-> "undefined", v |-> 0]
JStr(s) == [t |-> "string", v |-> s]
JNum(n) == [t |-> "number", v |-> n]
JBool(b) == [t |-> "boolean", v |-> b]
JObj(f) == [t |-> "object", v |-> f]
JArr(q) == [t |-> "array", v |-> q]

EmptyRecord == [k \in {} |-> JUndefined]

Get(x, k) == IF k \in DOMAIN x.v THEN x.v[k] ELSE JUndefined
With(x, k, val) == JObj([f \in (DOMAIN x.v) \cup {k} |-> IF f = k THEN val ELSE x.v[f]])
Without(x, k) == JObj([f \in (DOMAIN x.v) \ {k} |-> x.v[f]])

-----------------------------------------------------------------------------
(* Zod schemas: a schema is a record, safeParse interprets it *)

ZString(min) == [kind |-> "string", min |-> min]
ZBoolean == [kind |-> "boolean"]
ZNumber == [kind |-> "number"]
ZEnum(values) == [kind |-> "enum", values |-> values]
ZOptional(inner) == [kind |-> "optional", inner |-> inner]
ZArray(element) == [kind |-> "array", element |-> element]
ZObject(shape) == [kind |-> "object", shape |-> shape, strict |-> FALSE]
\* Variant: unknown keys are stripped, as for an object that is not strict
ZStrict_strip(obj) == obj

\* z.object({...}).strict()
ZStrict(obj) == [obj EXCEPT !.strict = TRUE]
ZIntersection(left, right) == [kind |-> "intersection", left |-> left, right |-> right]
\* .refine((data) => data.k1 || data.k2 || ...): `anyOf` is the set of the keys
ZRefine(inner, anyOf) == [kind |-> "refine", inner |-> inner, anyOf |-> anyOf]

Issue(path, code) == [path |-> path, code |-> code, keys |-> {}]
UnrecognizedKeys(path, keys) == [path |-> path, code |-> "unrecognized_keys", keys |-> keys]

\* JavaScript truthiness
Truthy(x) ==
    CASE x.t = "undefined" -> FALSE
      [] x.t = "string" -> Len(x.v) > 0
      [] x.t = "number" -> x.v # 0
      [] x.t = "boolean" -> x.v
      [] OTHER -> TRUE

\* issues that abort the parse of the enclosing value, so that a refinement of it
\* is not run
Aborted(issues) == \E i \in issues : i.code \in {"invalid_type", "invalid_enum_value"}

\* mergeValues of an intersection, for two objects
MergeValues(a, b) ==
    JObj([k \in (DOMAIN a.v) \cup (DOMAIN b.v) |->
             IF k \in DOMAIN a.v THEN a.v[k] ELSE b.v[k]])

RECURSIVE Output(_, _)

\* The issues ZodType._parse collects for value x at `path`
RECURSIVE Issues(_, _, _)
Issues(s, x, path) ==
    CASE s.kind = "optional" ->
            IF x.t = "undefined" THEN {} ELSE Issues(s.inner, x, path)
      [] s.kind = "string" ->
            IF x.t # "string" THEN {Issue(path, "invalid_type")}
            ELSE IF Len(x.v) < s.min THEN {Issue(path, "too_small")}
            ELSE {}
      [] s.kind = "boolean" ->
            IF x.t # "boolean" THEN {Issue(path, "invalid_type")} ELSE {}
      [] s.kind = "number" ->
            IF x.t # "number" THEN {Issue(path, "invalid_type")} ELSE {}
      [] s.kind = "enum" ->
            IF x.t # "string" THEN {Issue(path, "invalid_type")}
            ELSE IF x.v \notin s.values THEN {Issue(path, "invalid_enum_value")}
            ELSE {}
      [] s.kind = "array" ->
            IF x.t # "array" THEN {Issue(path, "invalid_type")}
            ELSE UNION { Issues(s.element, x.v[i], Append(path, ToString(i - 1))) :
                         i \in 1..Len(x.v) }
      [] s.kind = "object" ->
            IF x.t # "object" THEN {Issue(path, "invalid_type")}
            ELSE UNION { Issues(s.shape[k], Get(x, k), Append(path, k)) :
                         k \in DOMAIN s.shape }
                 \cup (IF s.strict /\ (DOMAIN x.v) \ (DOMAIN s.shape) # {}
                       THEN {UnrecognizedKeys(path, (DOMAIN x.v) \ (DOMAIN s.shape))}
                       ELSE {})
      [] s.kind = "intersection" ->
            LET both == Issues(s.left, x, path) \cup Issues(s.right, x, path) IN
            IF Aborted(both) THEN both
            ELSE LET l == Output(s.left, x)
                     r == Output(s.right, x)
                 IN  both \cup
                     (IF l.t = "object" /\ r.t = "object"
                         /\ \E k \in (DOMAIN l.v) \cap (DOMAIN r.v) : l.v[k] # r.v[k]
                      THEN {Issue(path, "invalid_intersection_types")}
                      ELSE {})
      [] s.kind = "refine" ->
            LET inner == Issues(s.inner, x, path) IN
            IF Aborted(inner) THEN inner
            ELSE LET data == Output(s.inner, x) IN
                 inner \cup (IF \E k \in s.anyOf : Truthy(Get(data, k))
                             THEN {}
                             ELSE {Issue(path, "custom")})

\* The value a successful parse returns: unknown keys of an object are stripped
Output(s, x) ==
    CASE s.kind = "optional" -> IF x.t = "undefined" THEN x ELSE Output(s.inner, x)
      [] s.kind = "intersection" -> MergeValues(Output(s.left, x), Output(s.right, x))
      [] s.kind = "refine" -> Output(s.inner, x)
      [] s.kind = "array" -> JArr([i \in 1..Len(x.v) |-> Output(s.element, x.v[i])])
      [] s.kind = "object" ->
            JObj([k \in (DOMAIN s.shape) \cap (DOMAIN x.v) |-> Output(s.shape[k], x.v[k])])
      [] OTHER -> x

\* schema.safeParse(data)
safeParse(s, data) ==
    LET issues == Issues(s, data, <<>>)
    IN  [success |-> issues = {},
         data |-> IF issues = {} THEN Output(s, data) ELSE JUndefined,
         error |-> issues]

(* src/schemas/sessions *)

GithubRepoContextSchema == ZObject([startingBranch |-> ZString(1)])

\* Variant: githubRepoContext is not part of the source context
SourceContextSchema_sourceOnly == ZObject([source |-> ZString(1)])

SourceContextSchema ==
    ZObject([source |-> ZString(1),
             githubRepoContext |-> ZOptional(GithubRepoContextSchema)])

AutomationModeEnum == ZEnum({"AUTOMATION_MODE_UNSPECIFIED", "AUTO_CREATE_PR"})

SessionStateEnum ==
    ZEnum({"STATE_UNSPECIFIED", "QUEUED", "PLANNING", "AWAITING_PLAN_APPROVAL",
           "AWAITING_USER_FEEDBACK", "IN_PROGRESS", "PAUSED", "FAILED", "COMPLETED"})

PullRequestSchema ==
    ZObject([url |-> ZString(0), title |-> ZString(0), description |-> ZString(0)])

SessionOutputSchema == ZObject([pullRequest |-> ZOptional(PullRequestSchema)])

\* Variant: `state` is optional
SessionSchema_stateOptional ==
    ZStrict(ZObject([name |-> ZString(0),
                     id |-> ZString(0),
                     createTime |-> ZString(0),
                     updateTime |-> ZString(0),
                     state |-> ZOptional(SessionStateEnum),
                     url |-> ZString(0),
                     prompt |-> ZString(0),
                     sourceContext |-> SourceContextSchema,
                     title |-> ZOptional(ZString(0)),
                     requirePlanApproval |-> ZOptional(ZBoolean),
                     automationMode |-> ZOptional(AutomationModeEnum),
                     outputs |-> ZOptional(ZArray(SessionOutputSchema))]))

SessionSchema ==
    ZStrict(ZObject([name |-> ZString(0),
                     id |-> ZString(0),
                     createTime |-> ZString(0),
                     updateTime |-> ZString(0),
                     state |-> SessionStateEnum,
                     url |-> ZString(0),
                     prompt |-> ZString(0),
                     sourceContext |-> SourceContextSchema,
                     title |-> ZOptional(ZString(0)),
                     requirePlanApproval |-> ZOptional(ZBoolean),
                     automationMode |-> ZOptional(AutomationModeEnum),
                     outputs |-> ZOptional(ZArray(SessionOutputSchema))]))

\* Variant: `sourceContext` is optional
CreateSessionRequestSchema_sourceContextOptional ==
    ZObject([prompt |-> ZString(1),
             sourceContext |-> ZOptional(SourceContextSchema),
             title |-> ZOptional(ZString(0)),
             requirePlanApproval |-> ZOptional(ZBoolean),
             automationMode |-> ZOptional(AutomationModeEnum)])

CreateSessionRequestSchema ==
    ZObject([prompt |-> ZString(1),
             sourceContext |-> SourceContextSchema,
             title |-> ZOptional(ZString(0)),
             requirePlanApproval |-> ZOptional(ZBoolean),
             automationMode |-> ZOptional(AutomationModeEnum)])

ListSessionsResponseSchema ==
    ZObject([sessions |-> ZOptional(ZArray(SessionSchema)),
             nextPageToken |-> ZOptional(ZString(0))])

(* src/schemas/activities.ts *)

BashOutputSchema ==
    ZObject([command |-> ZOptional(ZString(0)),
             output |-> ZOptional(ZString(0)),
             exitCode |-> ZOptional(ZNumber)])

GitPatchSchema ==
    ZObject([unidiffPatch |-> ZOptional(ZString(0)),
             baseCommitId |-> ZOptional(ZString(0)),
             suggestedCommitMessage |-> ZOptional(ZString(0))])

ChangeSetSchema ==
    ZObject([source |-> ZOptional(ZString(0)), gitPatch |-> ZOptional(GitPatchSchema)])

MediaSchema == ZObject([data |-> ZOptional(ZString(0)), mimeType |-> ZOptional(ZString(0))])

ArtifactFields ==
    ZObject([changeSet |-> ZOptional(ChangeSetSchema),
             media |-> ZOptional(MediaSchema),
             bashOutput |-> ZOptional(BashOutputSchema)])

\* lines 31-35: the fields are optional, nothing more is asked
ArtifactSchemaOptionalFields == ArtifactFields

\* lines 142-149: at least one of the fields
ArtifactSchema == ZRefine(ArtifactFields, {"changeSet", "media", "bashOutput"})

PlanStepSchema ==
    ZObject([id |-> ZString(0), title |-> ZString(0), description |-> ZString(0),
             index |-> ZNumber])

PlanSchema ==
    ZObject([id |-> ZString(0),
             steps |-> ZOptional(ZArray(PlanStepSchema)),
             createTime |-> ZOptional(ZString(0))])

\* Variant: the message of an agentMessaged is optional
AgentMessagedSchema_messageOptional == ZObject([agentMessage |-> ZOptional(ZString(0))])

AgentMessagedSchema == ZObject([agentMessage |-> ZString(0)])
UserMessagedSchema == ZObject([userMessage |-> ZString(0)])
PlanGeneratedSchema == ZObject([plan |-> PlanSchema])
PlanApprovedSchema == ZObject([planId |-> ZString(0)])
ProgressUpdatedSchema ==
    ZObject([title |-> ZOptional(ZString(0)), description |-> ZOptional(ZString(0))])
SessionCompletedSchema == ZObject(EmptyRecord)
SessionFailedSchema == ZObject([reason |-> ZOptional(ZString(0))])

ActivityContentSchema ==
    ZObject([agentMessaged |-> ZOptional(AgentMessagedSchema),
             userMessaged |-> ZOptional(UserMessagedSchema),
             planGenerated |-> ZOptional(PlanGeneratedSchema),
             planApproved |-> ZOptional(PlanApprovedSchema),
             progressUpdated |-> ZOptional(ProgressUpdatedSchema),
             sessionCompleted |-> ZOptional(SessionCompletedSchema),
             sessionFailed |-> ZOptional(SessionFailedSchema)])

ContentFields == DOMAIN ActivityContentSchema.shape

ActivityBaseSchema(artifact) ==
    ZObject([name |-> ZString(0),
             id |-> ZString(0),
             description |-> ZOptional(ZString(0)),
             createTime |-> ZString(0),
             originator |-> ZString(0),
             artifacts |-> ZOptional(ZArray(artifact))])

\* lines 94-101: base fields and optional content
ActivitySchemaOptionalFields ==
    ZIntersection(ActivityBaseSchema(ArtifactSchemaOptionalFields), ActivityContentSchema)

\* lines 208-220: base fields and at least one content field
ActivitySchema ==
    ZRefine(ZIntersection(ActivityBaseSchema(ArtifactSchema), ActivityContentSchema),
            ContentFields)

\* src/schemas/activities.ts declares the schemas twice; a build has one of the
\* two declarations
ActivitySchemaDeclarations == {"ActivitySchemaOptionalFields", "ActivitySchema"}

\* The schema a call validates its response against; "none" = no validation
SchemaNamed(name) ==
    CASE name = "SessionSchema" -> SessionSchema
      [] name = "ListSessionsResponseSchema" -> ListSessionsResponseSchema
      [] name = "ActivitySchemaOptionalFields" -> ActivitySchemaOptionalFields
      [] name = "ActivitySchema" -> ActivitySchema

-----------------------------------------------------------------------------
(* src/http: retry configuration *)

\* Variant: the default the comments of RetryConfig give
DEFAULT_RETRY_CONFIG_documented ==
    [maxRetries |-> 3,
     initialDelayMs |-> 1000,
     maxDelayMs |-> 10000,
     retryableStatuses |-> {408, 429, 500, 502, 503, 504}]

DEFAULT_RETRY_CONFIG ==
    [maxRetries |-> 0,
     initialDelayMs |-> 1000,
     maxDelayMs |-> 10000,
     retryableStatuses |-> {408, 429, 500, 502, 503, 504}]

\* { ...a, ...b }
Spread(a, b) ==
    [k \in (DOMAIN a) \cup (DOMAIN b) |-> IF k \in DOMAIN b THEN b[k] ELSE a[k]]

\* an absent retryConfig
NoRetryConfig == [k \in {} |-> 0]

\* The retryConfig option a client may be constructed with
RetryConfigs ==
    {NoRetryConfig}
    \cup { [maxRetries |-> n] : n \in 0..MaxRetriesBound }
    \cup { [maxRetries |-> n, initialDelayMs |-> 1000, maxDelayMs |-> 1500] :
           n \in 0..MaxRetriesBound }
    \cup { [maxRetries |-> n, initialDelayMs |-> 3000, maxDelayMs |-> 2000] :
           n \in 0..MaxRetriesBound }
    \cup { [maxRetries |-> n, retryableStatuses |-> {404, 503}] :
           n \in 0..MaxRetriesBound }

\* const retrySettings = { ...DEFAULT_RETRY_CONFIG, ...retryConfig }
RetrySettingsFor(retryConfig) == Spread(DEFAULT_RETRY_CONFIG, retryConfig)

(* Responses of the remote service *)

NoHeader == [present |-> FALSE, value |-> <<>>]
Header(v) == [present |-> TRUE, value |-> v]

\* values a Retry-After header may carry: seconds, an HTTP-date, and what a
\* server or proxy may send besides (empty, text, a signed number)
RetryAfterValues ==
    {<<"2">>, <<"0">>, <<>>, <<"s", "o", "o", "n">>, HttpDate(<<"1">>), HttpDate(<<"3">>),
     <<"-", "1">>}

ErrorStatuses == {400, 404, 408, 429, 500, 502, 503, 504}

ErrorBody(status) ==
    JObj([error |-> JObj([code |-> JNum(status), message |-> JStr("failed")])])

\* error.response of an attempt answered with a non-2xx status
ErrorResponses ==
    { [status |-> st, retryAfter |-> NoHeader, data |-> ErrorBody(st)] :
      st \in ErrorStatuses }
    \cup { [status |-> st, retryAfter |-> Header(v), data |-> ErrorBody(st)] :
           st \in {404, 429, 503}, v \in RetryAfterValues }

\* AxiosError with a response / without one (connection failure, timeout)
ResponseError(r) ==
    [hasResponse |-> TRUE, code |-> "ERR_BAD_RESPONSE", status |-> r.status,
     retryAfter |-> r.retryAfter, data |-> r.data]
NoResponseError(code) ==
    [hasResponse |-> FALSE, code |-> code, status |-> 0,
     retryAfter |-> NoHeader, data |-> JUndefined]
NoError == NoResponseError("")

NoResponseCodes == {"ERR_NETWORK", "ECONNABORTED"}

(* src/http: the retry decision *)

\* Variant: every failure is retryable
isRetryableError_always(err, retryableStatuses) == TRUE

\* Variant: only a received status can be retryable
isRetryableError_statusOnly(err, retryableStatuses) ==
    err.hasResponse /\ err.status \in retryableStatuses

isRetryableError(err, retryableStatuses) ==
    IF ~err.hasResponse THEN TRUE
    ELSE err.status \in retryableStatuses

Null == [isNull |-> TRUE, ms |-> 0]
Ms(n) == [isNull |-> FALSE, ms |-> n]

\* Variant: the seconds are not converted to milliseconds
getRetryAfterMs_seconds(err, dateNow) ==
    LET present == err.hasResponse /\ err.retryAfter.present
        retryAfter == err.retryAfter.value
        seconds == parseInt(retryAfter)
        date == DateGetTime(retryAfter)
    IN  IF ~present \/ retryAfter = <<>> THEN Null
        ELSE IF ~seconds.nan THEN Ms(seconds.n)
        ELSE IF ~date.nan THEN Ms(Max(0, date.n - dateNow))
        ELSE Null

getRetryAfterMs(err, dateNow) ==
    LET present == err.hasResponse /\ err.retryAfter.present
        retryAfter == err.retryAfter.value
        seconds == parseInt(retryAfter)
        date == DateGetTime(retryAfter)
    IN  IF ~present \/ retryAfter = <<>> THEN Null
        ELSE IF ~seconds.nan THEN Ms(seconds.n * 1000)
        ELSE IF ~date.nan THEN Ms(Max(0, date.n - dateNow))
        ELSE Null

\* Variant: the comparison is off by one
shouldRetry_offByOne(retryCount, err, settings) ==
    /\ retryCount <= settings.maxRetries
    /\ isRetryableError(err, settings.retryableStatuses)

\* const shouldRetry = config._retryCount < maxRetries && isRetryableError(...)
\* Variant: one retry fewer than configured
shouldRetry_oneFewer(retryCount, err, settings) ==
    retryCount + 1 < settings.maxRetries /\ isRetryableError(err, settings)

\* Variant: no failure is retried
shouldRetry_never(retryCount, err, settings) == FALSE

shouldRetry(retryCount, err, settings) ==
    /\ retryCount < settings.maxRetries
    /\ isRetryableError(err, settings.retryableStatuses)

\* Variant: the exponent is the retry count itself
backoffDelayMs_exponent(retryCount, settings) ==
    Min(settings.initialDelayMs * Pow2(retryCount), settings.maxDelayMs)

\* Math.min(initialDelayMs * Math.pow(2, _retryCount - 1), maxDelayMs)
backoffDelayMs(retryCount, settings) ==
    Min(settings.initialDelayMs * Pow2(retryCount - 1), settings.maxDelayMs)

\* Variant: maxDelayMs bounds the hint as well
retryDelayMs_capped(retryCount, err, settings, dateNow) ==
    LET retryAfterMs == getRetryAfterMs(err, dateNow)
    IN  IF ~retryAfterMs.isNull THEN Min(retryAfterMs.ms, settings.maxDelayMs)
        ELSE backoffDelayMs(retryCount, settings)

\* the delay chosen at lines 113-137
retryDelayMs(retryCount, err, settings, dateNow) ==
    LET retryAfterMs == getRetryAfterMs(err, dateNow)
    IN  IF ~retryAfterMs.isNull THEN retryAfterMs.ms
        ELSE backoffDelayMs(retryCount, settings)

-----------------------------------------------------------------------------
(* Responses with a 2xx status: the bodies the service may send *)

ValidSession ==
    JObj([name |-> JStr("sessions/sess1"),
          id |-> JStr("sess1"),
          createTime |-> JStr("2025-10-17T10:00:00Z"),
          updateTime |-> JStr("2025-10-17T10:00:00Z"),
          state |-> JStr("QUEUED"),
          url |-> JStr("https://jules.google.com/session/sess1"),
          prompt |-> JStr("Create a todo app"),
          sourceContext |-> JObj([source |-> JStr("sources/github/owner/repo")])])

\* the Session the service answers a createSession with: prompt and source
\* context are those of the request
EchoSession(request) ==
    With(With(With(ValidSession, "prompt", Get(request, "prompt")),
              "sourceContext", Get(request, "sourceContext")),
         "title", JStr("Create a todo app"))

RoundTripRequest ==
    JObj([prompt |-> JStr("Create a todo app"),
          sourceContext |->
              JObj([source |-> JStr("sources/github/owner/repo"),
                    githubRepoContext |-> JObj([startingBranch |-> JStr("main")])])])

SessionBodies ==
    {ValidSession,
     EchoSession(RoundTripRequest),
     Without(EchoSession(RoundTripRequest), "title"),
     With(ValidSession, "sourceContext",
          JObj([source |-> JStr("sources/github/owner/repo"),
                environment |-> JStr("vm")])),
     Without(ValidSession, "state"),
     With(ValidSession, "id", JNum(123)),
     JObj([id |-> JNum(123)]),
     With(ValidSession, "state", JStr("RUNNING")),
     With(ValidSession, "etag", JStr("abc")),
     With(ValidSession, "title", JStr("Todo")),
     JObj(EmptyRecord),
     JStr("<html>")}

\* an activity with the base fields and no content field
BaseActivity ==
    JObj([name |-> JStr("sessions/sess1/activities/bad"),
          id |-> JStr("bad"),
          description |-> JStr("Invalid"),
          createTime |-> JStr("2025-10-17T10:00:00Z"),
          originator |-> JStr("agent")])

ProgressUpdated == JObj([title |-> JStr("Working"), description |-> JStr("Step 1")])

\* a value for each content field that its sub-schema accepts
ContentValue(field) ==
    CASE field = "agentMessaged" -> JObj([agentMessage |-> JStr("Hello")])
      [] field = "userMessaged" -> JObj([userMessage |-> JStr("Hi")])
      [] field = "planGenerated" -> JObj([plan |-> JObj([id |-> JStr("plan1")])])
      [] field = "planApproved" -> JObj([planId |-> JStr("plan1")])
      [] field = "progressUpdated" -> ProgressUpdated
      [] field = "sessionCompleted" -> JObj(EmptyRecord)
      [] field = "sessionFailed" -> JObj([reason |-> JStr("boom")])

BashOutputArtifact ==
    JObj([bashOutput |-> JObj([command |-> JStr("ls"), output |-> JStr("a.txt"),
                               exitCode |-> JNum(0)])])

EmptyArtifact == JObj(EmptyRecord)
UnrecognisedArtifact == JObj([screenshot |-> JStr("png")])

ProgressActivity == With(BaseActivity, "progressUpdated", ProgressUpdated)

\* a planGenerated whose plan has steps and no id
PlanWithoutId == JObj([plan |-> JObj([steps |-> JArr(<<>>)])])

ActivityBodies ==
    {BaseActivity,
     Without(BaseActivity, "description"),
     With(BaseActivity, "kind", JStr("PROGRESS")),
     With(ProgressActivity, "sessionCompleted", JObj(EmptyRecord)),
     With(BaseActivity, "agentMessaged", JObj(EmptyRecord)),
     With(ProgressActivity, "agentMessaged", JObj(EmptyRecord)),
     With(BaseActivity, "planGenerated", PlanWithoutId),
     With(ProgressActivity, "planGenerated", PlanWithoutId),
     Without(ProgressActivity, "id"),
     With(ProgressActivity, "artifacts", JArr(<<BashOutputArtifact>>)),
     With(ProgressActivity, "artifacts", JArr(<<BashOutputArtifact, EmptyArtifact>>)),
     With(ProgressActivity, "artifacts", JArr(<<UnrecognisedArtifact>>)),
     With(BaseActivity, "artifacts", JArr(<<BashOutputArtifact>>)),
     JObj(EmptyRecord),
     JStr("<html>")}
    \cup { With(BaseActivity, f, ContentValue(f)) : f \in ContentFields }

ListSessionsBodies ==
    {JObj([sessions |-> JArr(<<ValidSession>>), nextPageToken |-> JStr("token789")]),
     JObj([sessions |-> JArr(<<ValidSession, Without(ValidSession, "state")>>)]),
     JObj([sessions |-> JArr(<<ValidSession, With(ValidSession, "etag", JStr("abc"))>>)]),
     JObj([sessions |-> JArr(<<With(ValidSession, "state", JStr("RUNNING"))>>)]),
     JObj(EmptyRecord),
     JStr("<html>")}

BodiesFor(schemaName) ==
    CASE schemaName = "SessionSchema" -> SessionBodies
      [] schemaName = "ListSessionsResponseSchema" -> ListSessionsBodies
      [] schemaName \in ActivitySchemaDeclarations -> ActivityBodies
      [] OTHER -> {JObj(EmptyRecord), JStr("<html>")}

SuccessBodies == SessionBodies \cup ActivityBodies \cup ListSessionsBodies

(* Values of a call *)

SessionIds == {"sess1", "sess2"}
Prompts == StringsUpTo(MaxPromptLen) \cup {<<"\t">>, <<"\n", "a">>}

ActivityIds == {"bad"}
PageSizes == {JUndefined, JNum(0), JNum(10)}
PageTokens == {JUndefined, JStr("token789")}

NoArgs ==
    [sessionId |-> "", prompt |-> <<>>, request |-> JUndefined, activityId |-> "",
     pageSize |-> JUndefined, pageToken |-> JUndefined]
PageArgs(pageSize, pageToken) ==
    [NoArgs EXCEPT !.pageSize = pageSize, !.pageToken = pageToken]
ActivityArgs(sessionId, activityId) ==
    [NoArgs EXCEPT !.sessionId = sessionId, !.activityId = activityId]
Args(sessionId, prompt) == [NoArgs EXCEPT !.sessionId = sessionId, !.prompt = prompt]
RequestArgs(request) == [NoArgs EXCEPT !.request = request]

\* the requests createSession is called with
ValidRequest == RoundTripRequest

CreateSessionRequests ==
    {ValidRequest,
     With(ValidRequest, "title", JStr("Todo App")),
     With(ValidRequest, "sourceContext", JObj([source |-> JStr("src1")])),
     With(ValidRequest, "draft", JBool(TRUE)),
     JObj([prompt |-> JStr("test")]),
     JObj([prompt |-> JStr(""), sourceContext |-> JObj([source |-> JStr("src1")])]),
     With(ValidRequest, "sourceContext", JObj([source |-> JStr("")])),
     With(ValidRequest, "automationMode", JStr("MANUAL"))}

NoConfig ==
    [method |-> "", url |-> <<>>, params |-> JUndefined, data |-> JUndefined,
     retryCountDefined |-> FALSE, _retryCount |-> 0]

RequestConfig(method, url, data) ==
    [NoConfig EXCEPT !.method = method, !.url = url, !.data = data]

\* { method, url, params }
RequestConfigWithParams(method, url, params) ==
    [NoConfig EXCEPT !.method = method, !.url = url, !.params = params]

\* what one attempt puts on the wire: the config without its private counter,
\* under the instance's default headers
WireRequest(cfg) ==
    [method |-> cfg.method, url |-> cfg.url, params |-> cfg.params, data |-> cfg.data,
     headers |-> [apiKey |-> "X-Goog-Api-Key", contentType |-> "application/json"]]

NoThrow ==
    [isAxiosError |-> FALSE, message |-> "", responseData |-> JUndefined,
     zodError |-> {}, axios |-> NoError]

\* new Error(message)
PlainError(message) == [NoThrow EXCEPT !.message = message]

\* the error requestWithValidation throws: responseData and zodError attached
ValidationError(data, issues) ==
    [NoThrow EXCEPT !.message = "Response validation failed",
                    !.responseData = data, !.zodError = issues]

\* Variant: the failure is wrapped in a new Error
TransportError_wrapped(err) == [NoThrow EXCEPT !.message = err.code]

\* the AxiosError the interceptor rejects with
TransportError(err) ==
    [NoThrow EXCEPT !.isAxiosError = TRUE, !.message = err.code, !.axios = err]

\* the ZodError schema.parse throws
ZodError(issues) == [NoThrow EXCEPT !.message = "ZodError", !.zodError = issues]

IsPreconditionFailure(e) ==
    e.message \in {"prompt must be a non-empty string", "ZodError"}
IsValidationFailure(e) == e.message = "Response validation failed"
IsTransportFailure(e) == e.isAxiosError

-----------------------------------------------------------------------------
(* State *)

\* the client has been constructed, no call has been made
NoCallYet ==
    /\ now = 0
    /\ pc = [c \in Calls |-> "idle"]
    /\ op = [c \in Calls |-> "none"]
    /\ args = [c \in Calls |-> NoArgs]
    /\ schema = [c \in Calls |-> "none"]
    /\ config = [c \in Calls |-> NoConfig]
    /\ sent = [c \in Calls |-> <<>>]
    /\ error = [c \in Calls |-> NoError]
    /\ delayMs = [c \in Calls |-> 0]
    /\ wakeAt = [c \in Calls |-> 0]
    /\ failedAt = [c \in Calls |-> 0]
    /\ resData = [c \in Calls |-> JUndefined]
    /\ outcome = [c \in Calls |-> "pending"]
    /\ result = [c \in Calls |-> JUndefined]
    /\ thrown = [c \in Calls |-> NoThrow]

Init ==
    /\ retrySettings \in { RetrySettingsFor(rc) : rc \in RetryConfigs }
    /\ NoCallYet

\* Variant: sleep spins until the delay is over
EventLoopBusy_busyWait == \E c \in Calls : pc[c] = "sleeping" /\ now < wakeAt[c]

\* sleep is a promise a timer settles (lines 33-35): a waiting call does not
\* occupy the thread, so the code of other calls runs meanwhile
EventLoopBusy == FALSE

\* http.request(config) / http.post(url, data): the first attempt goes out
Dispatch(c, name, a, schemaName, cfg) ==
    /\ ~EventLoopBusy
    /\ pc' = [pc EXCEPT ![c] = "inflight"]
    /\ op' = [op EXCEPT ![c] = name]
    /\ args' = [args EXCEPT ![c] = a]
    /\ schema' = [schema EXCEPT ![c] = schemaName]
    /\ config' = [config EXCEPT ![c] = cfg]
    /\ sent' = [sent EXCEPT ![c] = Append(@, WireRequest(cfg))]
    /\ UNCHANGED <<retrySettings, now, error, delayMs, wakeAt, failedAt, resData,
                   outcome, result, thrown>>

\* the facade method throws before any request is made
ThrowBeforeRequest(c, name, a, e) ==
    /\ ~EventLoopBusy
    /\ pc' = [pc EXCEPT ![c] = "done"]
    /\ op' = [op EXCEPT ![c] = name]
    /\ args' = [args EXCEPT ![c] = a]
    /\ outcome' = [outcome EXCEPT ![c] = "rejected"]
    /\ thrown' = [thrown EXCEPT ![c] = e]
    /\ UNCHANGED <<retrySettings, now, schema, config, sent, error, delayMs, wakeAt,
                   failedAt, resData, result>>

(* src/client.ts: the facade *)

\* Variant: the prompt is not trimmed before the test
promptRejected_noTrim(prompt) == prompt = <<>>

\* Variant: the trimmed prompt is sent
sendMessageData_trimmed(prompt) == JObj([prompt |-> JStr(Trim(prompt))])

\* !prompt || typeof prompt !== 'string' || prompt.trim().length === 0
promptRejected(prompt) == prompt = <<>> \/ Len(Trim(prompt)) = 0

sendMessageUrl(sessionId) == <<"/sessions/", sessionId, ":sendMessage">>
sendMessageData(prompt) == JObj([prompt |-> JStr(prompt)])

sendMessage(c, sessionId, prompt) ==
    /\ pc[c] = "idle"
    /\ IF promptRejected(prompt)
       THEN ThrowBeforeRequest(c, "sendMessage", Args(sessionId, prompt),
                               PlainError("prompt must be a non-empty string"))
       ELSE Dispatch(c, "sendMessage", Args(sessionId, prompt), "none",
                     RequestConfig("POST", sendMessageUrl(sessionId),
                                   sendMessageData(prompt)))

\* CreateSessionRequestSchema.parse(request), then POST /sessions with the parsed
\* value as the body
createSession(c, request) ==
    LET validated == safeParse(CreateSessionRequestSchema, request) IN
    /\ pc[c] = "idle"
    /\ IF ~validated.success
       THEN ThrowBeforeRequest(c, "createSession", RequestArgs(request),
                               ZodError(validated.error))
       ELSE Dispatch(c, "createSession", RequestArgs(request), "SessionSchema",
                     RequestConfig("POST", <<"/sessions">>, validated.data))

\* const params = {}; if (pageSize) ...; if (pageToken) ...
listSessionsParams(pageSize, pageToken) ==
    LET withSize == IF Truthy(pageSize)
                    THEN With(JObj(EmptyRecord), "pageSize", pageSize)
                    ELSE JObj(EmptyRecord)
    IN  IF Truthy(pageToken) THEN With(withSize, "pageToken", pageToken) ELSE withSize

listSessions(c, pageSize, pageToken) ==
    /\ pc[c] = "idle"
    /\ Dispatch(c, "listSessions", PageArgs(pageSize, pageToken),
                "ListSessionsResponseSchema",
                RequestConfigWithParams("GET", <<"/sessions">>,
                                        listSessionsParams(pageSize, pageToken)))

\* Variant: the answer is validated as a Session
approvePlan_validated(c, sessionId) ==
    /\ pc[c] = "idle"
    /\ Dispatch(c, "approvePlan", Args(sessionId, <<>>), "SessionSchema",
                RequestConfig("POST", <<"/sessions/", sessionId, ":approvePlan">>,
                              JUndefined))

\* await this.httpClient.post(`/sessions/${sessionId}:approvePlan`)
approvePlan(c, sessionId) ==
    /\ pc[c] = "idle"
    /\ Dispatch(c, "approvePlan", Args(sessionId, <<>>), "none",
                RequestConfig("POST", <<"/sessions/", sessionId, ":approvePlan">>,
                              JUndefined))

getSession(c, sessionId) ==
    /\ pc[c] = "idle"
    /\ Dispatch(c, "getSession", Args(sessionId, <<>>), "SessionSchema",
                RequestConfig("GET", <<"/sessions/", sessionId>>, JUndefined))

\* GET /sessions/{sessionId}/activities/{activityId}, validated against the
\* ActivitySchema the build declares
getActivity(c, sessionId, activityId, declaration) ==
    /\ pc[c] = "idle"
    /\ Dispatch(c, "getActivity", ActivityArgs(sessionId, activityId), declaration,
                RequestConfig("GET",
                              <<"/sessions/", sessionId, "/activities/", activityId>>,
                              JUndefined))

-----------------------------------------------------------------------------
(* src/http: the response interceptor and requestWithValidation *)

\* Variant: the counter is re-initialised on every failure
initRetryCount_reset(cfg) ==
    [cfg EXCEPT !.retryCountDefined = TRUE, !._retryCount = 0]

\* Variant: one counter on the client, shared by its calls
initRetryCount_shared(cfg) ==
    LET counts == { config[c]._retryCount : c \in Calls }
    IN  [cfg EXCEPT !.retryCountDefined = TRUE,
                    !._retryCount = CHOOSE n \in counts : \A m \in counts : m <= n]

\* if (!config._retryCount) config._retryCount = 0
initRetryCount(cfg) ==
    IF ~cfg.retryCountDefined \/ cfg._retryCount = 0
    THEN [cfg EXCEPT !.retryCountDefined = TRUE, !._retryCount = 0]
    ELSE cfg

\* Variant: the counter is advanced by two
incrementRetryCount_byTwo(cfg) == [cfg EXCEPT !._retryCount = @ + 2]

\* config._retryCount += 1
incrementRetryCount(cfg) == [cfg EXCEPT !._retryCount = @ + 1]

\* Variant: the sleep is not awaited
sleepUntil_notAwaited(dateNow, ms) == dateNow

\* sleep(ms): setTimeout fires no sooner than ms from now, at once for ms <= 0
sleepUntil(dateNow, ms) == dateNow + Max(0, ms)

\* The interceptor's rejection handler, up to `await sleep(delayMs)`; a rejection
\* it returns passes through requestWithValidation and the facade method, which
\* catch nothing.
onRejected(c, err) ==
    LET cfg == initRetryCount(config[c]) IN
    /\ ~EventLoopBusy
    /\ error' = [error EXCEPT ![c] = err]
    /\ failedAt' = [failedAt EXCEPT ![c] = now]
    /\ IF ~shouldRetry(cfg._retryCount, err, retrySettings)
       THEN /\ config' = [config EXCEPT ![c] = cfg]
            /\ pc' = [pc EXCEPT ![c] = "done"]
            /\ outcome' = [outcome EXCEPT ![c] = "rejected"]
            /\ thrown' = [thrown EXCEPT ![c] = TransportError(err)]
            /\ UNCHANGED <<delayMs, wakeAt>>
       ELSE LET cfg1 == incrementRetryCount(cfg)
                d == retryDelayMs(cfg1._retryCount, err, retrySettings, now)
            IN  /\ config' = [config EXCEPT ![c] = cfg1]
                /\ pc' = [pc EXCEPT ![c] = "sleeping"]
                /\ delayMs' = [delayMs EXCEPT ![c] = d]
                /\ wakeAt' = [wakeAt EXCEPT ![c] = sleepUntil(now, d)]
                /\ UNCHANGED <<outcome, thrown>>
    /\ UNCHANGED <<retrySettings, now, op, args, schema, sent, resData, result>>

\* an attempt is answered with a non-2xx status
ReceiveErrorResponse(c, r) ==
    /\ pc[c] = "inflight"
    /\ onRejected(c, ResponseError(r))

\* an attempt gets no response: connection failure, or the timeout expires
ReceiveNoResponse(c, code) ==
    /\ pc[c] = "inflight"
    /\ onRejected(c, NoResponseError(code))

\* Variant: the retry is built from the method and the url alone
requestAgain_withoutBody(cfg) == [cfg EXCEPT !.data = JUndefined, !.params = JUndefined]

\* the config handed to instance.request at line 141: the object of the failed
\* attempt
requestAgain(cfg) == cfg

\* the delay has elapsed: return instance.request(config).  The handled error and
\* the handler's locals go out of scope.
Retry(c) ==
    /\ pc[c] = "sleeping"
    /\ now >= wakeAt[c]
    /\ pc' = [pc EXCEPT ![c] = "inflight"]
    /\ sent' = [sent EXCEPT ![c] = Append(@, WireRequest(requestAgain(config[c])))]
    /\ error' = [error EXCEPT ![c] = NoError]
    /\ delayMs' = [delayMs EXCEPT ![c] = 0]
    /\ wakeAt' = [wakeAt EXCEPT ![c] = 0]
    /\ failedAt' = [failedAt EXCEPT ![c] = 0]
    /\ UNCHANGED <<retrySettings, now, op, args, schema, config, resData, outcome,
                   result, thrown>>

\* the call's promise resolves with `value`
resolveWith(c, value) ==
    /\ pc' = [pc EXCEPT ![c] = "done"]
    /\ outcome' = [outcome EXCEPT ![c] = "resolved"]
    /\ result' = [result EXCEPT ![c] = value]
    /\ UNCHANGED <<config, sent, thrown>>

\* Variant: a failed parse re-issues the request while retries remain
throwValidationError_retried(c, data, issues) ==
    IF config[c]._retryCount < retrySettings.maxRetries
    THEN /\ config' = [config EXCEPT ![c] = incrementRetryCount(initRetryCount(@))]
         /\ sent' = [sent EXCEPT ![c] = Append(@, WireRequest(config[c]))]
         /\ thrown' = [thrown EXCEPT ![c] = ValidationError(data, issues)]
         /\ UNCHANGED <<pc, outcome, result>>
    ELSE /\ pc' = [pc EXCEPT ![c] = "done"]
         /\ outcome' = [outcome EXCEPT ![c] = "rejected"]
         /\ thrown' = [thrown EXCEPT ![c] = ValidationError(data, issues)]
         /\ UNCHANGED <<config, sent, result>>

\* Variant: a failed parse is logged and the raw body returned
throwValidationError_swallowed(c, data, issues) == resolveWith(c, data)

\* requestWithValidation lines 174-184: the parse failed, throw err
throwValidationError(c, data, issues) ==
    /\ pc' = [pc EXCEPT ![c] = "done"]
    /\ outcome' = [outcome EXCEPT ![c] = "rejected"]
    /\ thrown' = [thrown EXCEPT ![c] = ValidationError(data, issues)]
    /\ UNCHANGED <<config, sent, result>>

\* An attempt is answered with a 2xx status and body `data`: the interceptor
\* passes the response on; requestWithValidation validates it against the schema
\* (lines 171-187), approvePlan and sendMessage return void.
ReceiveSuccess(c, data) ==
    /\ pc[c] = "inflight"
    /\ ~EventLoopBusy
    /\ data \in BodiesFor(schema[c])
    /\ resData' = [resData EXCEPT ![c] = data]
    /\ IF schema[c] = "none"
       THEN resolveWith(c, JUndefined)
       ELSE LET parsed == safeParse(SchemaNamed(schema[c]), data)
            IN  IF ~parsed.success
                THEN throwValidationError(c, data, parsed.error)
                ELSE resolveWith(c, parsed.data)
    /\ UNCHANGED <<retrySettings, now, op, args, schema, error, delayMs, wakeAt,
                   failedAt>>

\* time passes
Tick ==
    /\ \/ now < MaxIdleTicks * 500
       \/ \E c \in Calls : pc[c] = "sleeping" /\ wakeAt[c] > now
    /\ now' = now + 500
    /\ UNCHANGED callVars
    /\ UNCHANGED retrySettings

Next ==
    \/ \E c \in OneCall, id \in SessionIds, p \in Prompts : sendMessage(c, id, p)
    \/ \E c \in OneCall, request \in CreateSessionRequests : createSession(c, request)
    \/ \E c \in OneCall, n \in PageSizes, t \in PageTokens : listSessions(c, n, t)
    \/ \E c \in OneCall, id \in SessionIds : approvePlan(c, id)
    \/ \E c \in OneCall, id \in SessionIds : getSession(c, id)
    \/ \E c \in OneCall, id \in SessionIds, a \in ActivityIds,
          d \in ActivitySchemaDeclarations : getActivity(c, id, a, d)
    \/ \E c \in OneCall, r \in ErrorResponses : ReceiveErrorResponse(c, r)
    \/ \E c \in OneCall, code \in NoResponseCodes : ReceiveNoResponse(c, code)
    \/ \E c \in OneCall, data \in SuccessBodies : ReceiveSuccess(c, data)
    \/ \E c \in OneCall : Retry(c)
    \/ Tick

Spec == Init /\ [][Next]_vars

(* One call under fairness: every attempt in flight is answered (by a response,
   a connection failure or the timeout), timers fire, time passes *)

Respond(c) ==
    \/ \E r \in ErrorResponses : ReceiveErrorResponse(c, r)
    \/ \E code \in NoResponseCodes : ReceiveNoResponse(c, code)
    \/ \E data \in SuccessBodies : ReceiveSuccess(c, data)

LiveRetryConfigs ==
    {NoRetryConfig, [maxRetries |-> MaxRetriesBound],
     [maxRetries |-> 1, initialDelayMs |-> 3000, maxDelayMs |-> 2000]}

LiveInit ==
    /\ NoCallYet
    /\ retrySettings \in { RetrySettingsFor(rc) : rc \in LiveRetryConfigs }

Fairness ==
    /\ WF_vars(Tick)
    /\ \A c \in OneCall : WF_vars(Respond(c)) /\ WF_vars(Retry(c))

\* every operation, with one session and one prompt of each kind
LiveNext ==
    \/ \E c \in OneCall, p \in {<<>>, <<"a">>} : sendMessage(c, "sess1", p)
    \/ \E c \in OneCall, request \in CreateSessionRequests : createSession(c, request)
    \/ \E c \in OneCall : listSessions(c, JUndefined, JUndefined)
    \/ \E c \in OneCall : approvePlan(c, "sess1")
    \/ \E c \in OneCall : getSession(c, "sess1")
    \/ \E c \in OneCall, declaration \in ActivitySchemaDeclarations :
          getActivity(c, "sess1", "bad", declaration)
    \/ \E c \in OneCall : Respond(c)
    \/ \E c \in OneCall : Retry(c)
    \/ Tick

LiveSpec == LiveInit /\ [][LiveNext]_vars /\ Fairness

(* Two calls made concurrently through one client: fewer inputs, short delays *)

ConcRetryConfigs ==
    { [maxRetries |-> n, initialDelayMs |-> 500, maxDelayMs |-> 500] :
      n \in {1, MaxRetriesBound} }
    \cup {[maxRetries |-> 1, initialDelayMs |-> 1000, maxDelayMs |-> 1000]}

ConcErrorResponses == { r \in ErrorResponses : r.status \in {400, 503} /\ ~r.retryAfter.present }

ConcInit ==
    /\ NoCallYet
    /\ retrySettings \in { RetrySettingsFor(rc) : rc \in ConcRetryConfigs }

ConcNext ==
    \/ \E c \in Calls : sendMessage(c, "sess1", <<"a">>)
    \/ \E c \in Calls : getSession(c, "sess1")
    \/ \E c \in Calls, r \in ConcErrorResponses : ReceiveErrorResponse(c, r)
    \/ \E c \in Calls : ReceiveNoResponse(c, "ERR_NETWORK")
    \/ \E c \in Calls, data \in {ValidSession, JObj(EmptyRecord)} : ReceiveSuccess(c, data)
    \/ \E c \in Calls : Retry(c)
    \/ Tick

ConcSpec == ConcInit /\ [][ConcNext]_vars

-----------------------------------------------------------------------------
(* Properties *)

\* number of network attempts a call has made
attempts(c) == Len(sent[c])

\* the failure carries a response whose status is / is not in the configured set
InRetryableSet(err) == err.hasResponse /\ err.status \in retrySettings.retryableStatuses
IsTerminalStatus(err) == err.hasResponse /\ err.status \notin retrySettings.retryableStatuses

\* step of call c in which the failure of an attempt is handled
FailureStep(c) == pc[c] = "inflight" /\ error'[c] # NoError

\* step of call c in which the retry is issued
RetryStep(c) == pc[c] = "sleeping" /\ pc'[c] = "inflight"

IsBlank(p) == \A i \in 1..Len(p) : p[i] \in Whitespace

\* C1: with maxRetries = 0, which is what an absent retryConfig gives, a call
\* that reaches the network makes exactly one attempt, never waits for a retry,
\* and a failure of that attempt is what the caller's promise rejects with.
C1_SingleAttemptWithoutRetries ==
    /\ RetrySettingsFor([k \in {} |-> 0]).maxRetries = 0
    /\ retrySettings.maxRetries = 0 =>
         \A c \in Calls :
            /\ attempts(c) <= 1
            /\ pc[c] # "sleeping"
            /\ pc[c] = "done" /\ ~IsPreconditionFailure(thrown[c]) => attempts(c) = 1
            /\ error[c] # NoError =>
                 /\ pc[c] = "done"
                 /\ outcome[c] = "rejected"
                 /\ thrown[c] = TransportError(error[c])

C1_Witness ==
    \E c \in Calls :
        /\ retrySettings.maxRetries = 0
        /\ pc[c] = "done"
        /\ InRetryableSet(error[c])
        /\ IsTransportFailure(thrown[c])
        /\ attempts(c) = 1

\* C2: a call never makes more than maxRetries retries (maxRetries + 1 attempts);
\* a call that ended on a retryable failure, so that every attempt failed
\* retryably, made exactly maxRetries retries and then rejected.
C2_AtMostMaxRetries ==
    \A c \in Calls :
        /\ attempts(c) <= retrySettings.maxRetries + 1
        /\ config[c]._retryCount <= retrySettings.maxRetries
        /\ (pc[c] = "done" /\ error[c] # NoError
              /\ (~error[c].hasResponse \/ InRetryableSet(error[c]))) =>
             /\ attempts(c) = retrySettings.maxRetries + 1
             /\ outcome[c] = "rejected"
             /\ thrown[c] = TransportError(error[c])

C2_Witness ==
    \E c \in Calls :
        /\ retrySettings.maxRetries = MaxRetriesBound
        /\ pc[c] = "done"
        /\ InRetryableSet(error[c])
        /\ attempts(c) = MaxRetriesBound + 1
        /\ outcome[c] = "rejected"

\* C3: a failure whose response status is outside the retryable set ends the
\* call at once: no retry is scheduled, even with retries left unused, and the
\* caller's promise rejects with that failure.
C3_TerminalStatusNotRetried ==
    \A c \in Calls :
        IsTerminalStatus(error[c]) =>
            /\ pc[c] = "done"
            /\ outcome[c] = "rejected"
            /\ thrown[c] = TransportError(error[c])
            /\ attempts(c) = config[c]._retryCount + 1

C3_Witness ==
    \E c \in Calls :
        /\ retrySettings.maxRetries > 0
        /\ error[c].hasResponse /\ error[c].status = 404
        /\ IsTerminalStatus(error[c])
        /\ config[c]._retryCount = 0
        /\ attempts(c) = 1
        /\ pc[c] = "done"

\* C4: when retries remain, a failed attempt is retried if and only if it got no
\* response at all (connection failure or timeout) or its status is in the
\* configured retryable set, which by default is {408,429,500,502,503,504}.
C4_RetryableIffNoResponseOrListedStatus ==
    /\ RetrySettingsFor([k \in {} |-> 0]).retryableStatuses
         = {408, 429, 500, 502, 503, 504}
    /\ [][\A c \in Calls :
            (FailureStep(c) /\ config[c]._retryCount < retrySettings.maxRetries) =>
               ((pc'[c] = "sleeping")
                  <=> (~error'[c].hasResponse
                         \/ error'[c].status \in retrySettings.retryableStatuses))
               /\ pc'[c] \in {"sleeping", "done"}]_vars

C4_Witness ==
    \E c \in Calls :
        /\ pc[c] = "sleeping"
        /\ ~error[c].hasResponse
        /\ error[c].code = "ECONNABORTED"

\* C5: the delay before the retry that follows failed attempt k, when the failure
\* carries no Retry-After header, is min(initialDelayMs * 2^(k-1), maxDelayMs),
\* and the retry is due that long after the failure.
C5_ExponentialBackoff ==
    \A c \in Calls :
        (pc[c] = "sleeping" /\ ~error[c].retryAfter.present) =>
            /\ delayMs[c] = Min(retrySettings.initialDelayMs * Pow2(attempts(c) - 1),
                                retrySettings.maxDelayMs)
            /\ delayMs[c] <= retrySettings.maxDelayMs
            /\ wakeAt[c] = failedAt[c] + delayMs[c]

C5_Witness ==
    \E c \in Calls :
        /\ pc[c] = "sleeping"
        /\ ~error[c].retryAfter.present
        /\ attempts(c) = 2
        /\ delayMs[c] = 2 * retrySettings.initialDelayMs
        /\ delayMs[c] < retrySettings.maxDelayMs

\* C6: a 429 failure with `Retry-After: 2` that is retried waits 2000 ms,
\* whatever the backoff settings and the attempt number, and the retry is not
\* issued before 2000 ms have passed since the failure.
C6_RetryAfterTwoSeconds ==
    [][\A c \in Calls :
          /\ (FailureStep(c)
                /\ error'[c].status = 429
                /\ error'[c].retryAfter = Header(<<"2">>)
                /\ config[c]._retryCount < retrySettings.maxRetries
                /\ 429 \in retrySettings.retryableStatuses) =>
                  /\ pc'[c] = "sleeping"
                  /\ delayMs'[c] = 2000
          /\ (RetryStep(c)
                /\ error[c].status = 429
                /\ error[c].retryAfter = Header(<<"2">>)) =>
                  now >= failedAt[c] + 2000]_vars

C6_Witness ==
    \E c \in Calls :
        /\ pc[c] = "sleeping"
        /\ error[c].status = 429
        /\ error[c].retryAfter = Header(<<"2">>)
        /\ backoffDelayMs(config[c]._retryCount, retrySettings) # 2000
        /\ delayMs[c] = 2000
        /\ now >= failedAt[c] + 2000

\* C7: once the response of a call has failed validation, no further attempt is
\* made for that call: the failing step itself sends nothing and ends the call,
\* and nothing is sent afterwards.
C7_ValidationFailureNotRetried ==
    [][\A c \in Calls :
          /\ IsValidationFailure(thrown'[c]) => (sent'[c] = sent[c] /\ pc'[c] = "done")
          /\ IsValidationFailure(thrown[c]) => (sent'[c] = sent[c] /\ pc'[c] = "done")]_vars

C7_Witness ==
    \E c \in Calls :
        /\ IsValidationFailure(thrown[c])
        /\ pc[c] = "done"
        /\ retrySettings.maxRetries > 0
        /\ config[c]._retryCount < retrySettings.maxRetries

\* C8: getSession, answered 2xx with a Session object that lacks `state` or whose
\* `id` is a number, rejects with a validation failure that carries the raw body
\* and an issue whose path is the offending field, and that is no transport failure.
C8_MalformedSessionRejected ==
    \A c \in Calls :
        (op[c] = "getSession" /\ pc[c] = "done" /\ resData[c].t = "object"
           /\ ("state" \notin DOMAIN resData[c].v \/ Get(resData[c], "id").t = "number")) =>
            /\ outcome[c] = "rejected"
            /\ IsValidationFailure(thrown[c])
            /\ ~IsTransportFailure(thrown[c])
            /\ thrown[c].responseData = resData[c]
            /\ "state" \notin DOMAIN resData[c].v =>
                 \E i \in thrown[c].zodError : i.path = <<"state">>
            /\ Get(resData[c], "id").t = "number" =>
                 \E i \in thrown[c].zodError : i.path = <<"id">>

C8_Witness ==
    \E c \in Calls :
        /\ op[c] = "getSession"
        /\ pc[c] = "done"
        /\ resData[c] = Without(ValidSession, "state")
        /\ IsValidationFailure(thrown[c])
        /\ thrown[c].zodError = {Issue(<<"state">>, "invalid_type")}

\* C9: sendMessage with an empty or whitespace-only prompt rejects with the
\* precondition failure and puts nothing on the wire.
C9_BlankPromptRejected ==
    \A c \in Calls :
        (op[c] = "sendMessage" /\ IsBlank(args[c].prompt)) =>
            /\ pc[c] = "done"
            /\ outcome[c] = "rejected"
            /\ IsPreconditionFailure(thrown[c])
            /\ attempts(c) = 0

C9_Witness ==
    \E c \in Calls :
        /\ op[c] = "sendMessage"
        /\ args[c].prompt = <<" ", " ">>
        /\ IsPreconditionFailure(thrown[c])
        /\ attempts(c) = 0

\* C10: sendMessage(id, p) with p non-blank sends a request, and when the first
\* attempt is answered 2xx the call has put exactly one request on the wire: a
\* POST to /sessions/{id}:sendMessage whose body is {prompt: p}, p untrimmed.
C10_SendMessagePostsPrompt ==
    \A c \in Calls :
        (op[c] = "sendMessage" /\ ~IsBlank(args[c].prompt)) =>
            /\ attempts(c) >= 1
            /\ (pc[c] = "done" /\ ~config[c].retryCountDefined) =>
                 /\ outcome[c] = "resolved"
                 /\ attempts(c) = 1
                 /\ sent[c][1].method = "POST"
                 /\ sent[c][1].url = <<"/sessions/", args[c].sessionId, ":sendMessage">>
                 /\ sent[c][1].data = JObj([prompt |-> JStr(args[c].prompt)])

C10_Witness ==
    \E c \in Calls :
        /\ op[c] = "sendMessage"
        /\ args[c] = Args("sess2", <<" ", "a">>)
        /\ pc[c] = "done"
        /\ outcome[c] = "resolved"
        /\ attempts(c) = 1

\* the ways the claim names of violating the create-session schema
MissingSourceContext(request) == Get(request, "sourceContext").t = "undefined"
EmptyPrompt(request) == Get(request, "prompt") = JStr("")
EmptySource(request) ==
    /\ Get(request, "sourceContext").t = "object"
    /\ Get(Get(request, "sourceContext"), "source") = JStr("")

\* C11: createSession called with a request that has no sourceContext, an empty
\* prompt or an empty source is rejected with a precondition failure and makes
\* no network attempt.
C11_InvalidCreateRequestNotSent ==
    \A c \in Calls :
        /\ op[c] = "createSession"
        /\ \/ MissingSourceContext(args[c].request)
           \/ EmptyPrompt(args[c].request)
           \/ EmptySource(args[c].request)
        => /\ pc[c] = "done"
           /\ outcome[c] = "rejected"
           /\ IsPreconditionFailure(thrown[c])
           /\ thrown[c].zodError # {}
           /\ ~IsTransportFailure(thrown[c])
           /\ attempts(c) = 0

C11_Witness ==
    \E c \in Calls :
        /\ op[c] = "createSession"
        /\ MissingSourceContext(args[c].request)
        /\ outcome[c] = "rejected"
        /\ Issue(<<"sourceContext">>, "invalid_type") \in thrown[c].zodError
        /\ attempts(c) = 0

\* the content fields a payload supplies
SuppliedContent(x) == { f \in ContentFields : Get(x, f).t # "undefined" }

\* name, id, createTime and originator are strings, description is a string or
\* absent
ValidBaseFields(x) ==
    /\ x.t = "object"
    /\ \A k \in {"name", "id", "createTime", "originator"} : Get(x, k).t = "string"
    /\ Get(x, "description").t \in {"string", "undefined"}

\* every content field supplied holds a value its sub-schema accepts
WellFormedContent(x) == \A f \in SuppliedContent(x) : Get(x, f) = ContentValue(f)

\* the call has received the 2xx response of a getActivity
ActivityAnswered(c) ==
    op[c] = "getActivity" /\ pc[c] = "done" /\ resData[c].t = "object"

\* C12: an activity payload with valid base fields (and no artifacts) validates
\* when it supplies at least one of the seven content fields, and fails
\* validation when it supplies none.
C12_AtLeastOneContentField ==
    \A c \in Calls :
        /\ ActivityAnswered(c)
        /\ ValidBaseFields(resData[c])
        /\ Get(resData[c], "artifacts").t = "undefined"
        /\ WellFormedContent(resData[c])
        => IF SuppliedContent(resData[c]) # {}
           THEN outcome[c] = "resolved"
           ELSE outcome[c] = "rejected" /\ IsValidationFailure(thrown[c])

\* C13: getActivity returns a defined value for a response that has the base
\* fields name, id, createTime and originator and none of the content fields.
C13_ContentlessActivityAccepted ==
    \A c \in Calls :
        /\ ActivityAnswered(c)
        /\ ValidBaseFields(resData[c])
        /\ Get(resData[c], "artifacts").t = "undefined"
        /\ SuppliedContent(resData[c]) = {}
        => /\ outcome[c] = "resolved"
           /\ result[c] # JUndefined

\* the artifact supplies only bashOutput / none of the three fields
OnlyBashOutput(a) ==
    /\ Get(a, "bashOutput").t = "object"
    /\ Get(a, "changeSet").t = "undefined"
    /\ Get(a, "media").t = "undefined"
NoArtifactContent(a) ==
    \A k \in {"changeSet", "media", "bashOutput"} : Get(a, k).t = "undefined"

ArtifactsOf(x) ==
    IF Get(x, "artifacts").t = "array"
    THEN { Get(x, "artifacts").v[i] : i \in 1..Len(Get(x, "artifacts").v) }
    ELSE {}

\* C14: an artifact that supplies only bashOutput validates (an otherwise valid
\* activity that carries such artifacts is accepted), and an artifact that
\* supplies none of changeSet, media and bashOutput fails validation, which makes
\* the enclosing activity response fail validation.
C14_ArtifactNeedsContent ==
    /\ safeParse(ArtifactSchema, BashOutputArtifact).success
    /\ \A c \in Calls :
          /\ ActivityAnswered(c)
          /\ ValidBaseFields(resData[c])
          /\ WellFormedContent(resData[c]) /\ SuppliedContent(resData[c]) # {}
          /\ ArtifactsOf(resData[c]) # {}
          => IF \A a \in ArtifactsOf(resData[c]) : OnlyBashOutput(a)
             THEN outcome[c] = "resolved"
             ELSE (\E a \in ArtifactsOf(resData[c]) : NoArtifactContent(a))
                  => outcome[c] = "rejected" /\ IsValidationFailure(thrown[c])

\* {prompt, sourceContext{source, githubRepoContext{startingBranch}}}, every
\* string non-empty
IsRoundTripRequest(r) ==
    /\ r.t = "object" /\ DOMAIN r.v = {"prompt", "sourceContext"}
    /\ r.v.prompt.t = "string" /\ Len(r.v.prompt.v) > 0
    /\ r.v.sourceContext.t = "object"
    /\ DOMAIN r.v.sourceContext.v = {"source", "githubRepoContext"}
    /\ r.v.sourceContext.v.source.t = "string"
    /\ Len(r.v.sourceContext.v.source.v) > 0
    /\ r.v.sourceContext.v.githubRepoContext.t = "object"
    /\ DOMAIN r.v.sourceContext.v.githubRepoContext.v = {"startingBranch"}
    /\ r.v.sourceContext.v.githubRepoContext.v.startingBranch.t = "string"
    /\ Len(r.v.sourceContext.v.githubRepoContext.v.startingBranch.v) > 0

SessionRequiredFields ==
    {"name", "id", "createTime", "updateTime", "state", "url", "prompt", "sourceContext"}

\* a Session with the required fields (and possibly a title) that echoes the
\* request's prompt and source context
IsEchoOf(x, r) ==
    /\ x.t = "object"
    /\ SessionRequiredFields \subseteq DOMAIN x.v
    /\ DOMAIN x.v \subseteq SessionRequiredFields \cup {"title"}
    /\ \A k \in {"name", "id", "createTime", "updateTime", "url"} : x.v[k].t = "string"
    /\ x.v.state \in { JStr(st) : st \in SessionStateEnum.values }
    /\ Get(x, "title").t \in {"string", "undefined"}
    /\ x.v.prompt = r.v.prompt
    /\ x.v.sourceContext = r.v.sourceContext

\* C15: a createSession request {prompt, sourceContext{source,
\* githubRepoContext{startingBranch}}} with non-empty strings passes the request
\* validation and every attempt POSTs it unchanged to /sessions; when the answer
\* is a Session with the required fields that echoes it, the call resolves with
\* exactly the answer's payload.
C15_CreateSessionRoundTrip ==
    \A c \in Calls :
        op[c] = "createSession" /\ IsRoundTripRequest(args[c].request) =>
            /\ ~IsPreconditionFailure(thrown[c])
            /\ attempts(c) >= 1
            /\ \A i \in 1..attempts(c) :
                  /\ sent[c][i].method = "POST"
                  /\ sent[c][i].url = <<"/sessions">>
                  /\ sent[c][i].data = args[c].request
            /\ pc[c] = "done" /\ IsEchoOf(resData[c], args[c].request) =>
                  /\ outcome[c] = "resolved"
                  /\ result[c] = resData[c]

C15_Witness ==
    \E c \in Calls :
        /\ op[c] = "createSession"
        /\ args[c].request = RoundTripRequest
        /\ sent[c] = <<WireRequest(RequestConfig("POST", <<"/sessions">>, RoundTripRequest))>>
        /\ resData[c] = EchoSession(RoundTripRequest)
        /\ outcome[c] = "resolved"
        /\ result[c] = EchoSession(RoundTripRequest)

\* C16: when the last attempt of a call fails with a terminal failure, or with
\* a retryable one after the retries are used up, the call rejects with that
\* very failure (an AxiosError carrying the status and the body of the last
\* response, not a validation or a wrapping error) and reports no result.
C16_TransportFailureUnchanged ==
    /\ [][\A c \in Calls :
            /\ FailureStep(c)
            /\ \/ IsTerminalStatus(error'[c])
               \/ config[c]._retryCount >= retrySettings.maxRetries
            => /\ pc'[c] = "done"
               /\ outcome'[c] = "rejected"
               /\ thrown'[c].isAxiosError
               /\ thrown'[c].axios = error'[c]]_vars
    /\ [](\A c \in Calls :
            pc[c] = "done" /\ error[c] # NoError =>
               /\ outcome[c] = "rejected"
               /\ result[c] = JUndefined
               /\ thrown[c].isAxiosError
               /\ thrown[c].axios = error[c]
               /\ error[c].hasResponse =>
                     thrown[c].axios.data = ErrorBody(thrown[c].axios.status)
               /\ ~IsValidationFailure(thrown[c])
               /\ thrown[c].responseData = JUndefined /\ thrown[c].zodError = {})

C16_Witness ==
    \E c \in Calls :
        /\ pc[c] = "done"
        /\ attempts(c) = 3
        /\ config[c]._retryCount = 2
        /\ error[c].hasResponse /\ error[c].status = 503
        /\ thrown[c].axios.status = 503
        /\ thrown[c].axios.data = ErrorBody(503)
        /\ outcome[c] = "rejected"

\* C17: a retryable failure met while retries remain is not shown to the
\* caller: the call stays pending, and when a later attempt among the first
\* maxRetries + 1 is answered 2xx the caller gets the validated result and no
\* transport failure; a transport failure is surfaced only if it is terminal or
\* the retries are used up.
C17_RetryableFailuresAbsorbed ==
    \A c \in Calls :
        /\ pc[c] \in {"inflight", "sleeping"} =>
              outcome[c] = "pending" /\ thrown[c] = NoThrow /\ result[c] = JUndefined
        /\ pc[c] = "done" /\ resData[c] # JUndefined =>
              /\ attempts(c) <= retrySettings.maxRetries + 1
              /\ error[c] = NoError
              /\ ~IsTransportFailure(thrown[c])
              /\ outcome[c] = "resolved" => thrown[c] = NoThrow
              /\ outcome[c] = "resolved" /\ schema[c] # "none" =>
                    result[c] = safeParse(SchemaNamed(schema[c]), resData[c]).data
        /\ IsTransportFailure(thrown[c]) =>
              /\ pc[c] = "done"
              /\ resData[c] = JUndefined
              /\ \/ IsTerminalStatus(thrown[c].axios)
                 \/ config[c]._retryCount = retrySettings.maxRetries

C17_Witness ==
    \E c \in Calls :
        /\ op[c] = "getSession"
        /\ pc[c] = "done"
        /\ attempts(c) = 3
        /\ config[c]._retryCount = 2
        /\ outcome[c] = "resolved"
        /\ result[c] = ValidSession
        /\ thrown[c] = NoThrow

\* the client was constructed without a retryConfig
DefaultClient == retrySettings = RetrySettingsFor(NoRetryConfig)

\* the failure is one the retry settings classify retryable
ClassifiedRetryable(err) == err # NoError /\ (~err.hasResponse \/ InRetryableSet(err))

Descriptor(cfg) == [cfg EXCEPT !.retryCountDefined = FALSE, !._retryCount = 0]

\* C19: all attempts of a call put the same request on the wire (method, path,
\* query parameters, body, headers), which is the request the call was
\* dispatched with; between attempts nothing of the call changes but the retry
\* counter and the delay of the handled failure.
C19_RetriedAsItself ==
    /\ [](\A c \in Calls :
            /\ \A i \in 1..attempts(c) : sent[c][i] = sent[c][1]
            /\ attempts(c) >= 1 => WireRequest(Descriptor(config[c])) = sent[c][1])
    /\ [][\A c \in Calls :
            pc[c] # "idle" =>
               /\ op'[c] = op[c]
               /\ args'[c] = args[c]
               /\ schema'[c] = schema[c]
               /\ Descriptor(config'[c]) = Descriptor(config[c])
               /\ \A i \in 1..attempts(c) : sent'[c][i] = sent[c][i]]_vars

C19_Witness ==
    \E c \in Calls :
        /\ op[c] = "createSession"
        /\ attempts(c) = 3
        /\ config[c]._retryCount = 2
        /\ sent[c][3].data = RoundTripRequest
        /\ sent[c][3] = sent[c][1]

\* C20: a further attempt of a call is issued only from the wait that follows a
\* failed attempt classified retryable, and only once the delay computed for it
\* has elapsed since the failure; the attempts made are one more than the
\* failures absorbed while an attempt is in flight, and equal to them during a
\* wait, so that no two attempts are ever in flight together.
C20_AttemptsStrictlyOrdered ==
    /\ [](\A c \in Calls :
            /\ pc[c] = "inflight" => attempts(c) = config[c]._retryCount + 1
            /\ pc[c] = "sleeping" =>
                  attempts(c) = config[c]._retryCount /\ ClassifiedRetryable(error[c])
            /\ pc[c] = "done" => attempts(c) \in {0, config[c]._retryCount + 1})
    /\ [][\A c \in Calls :
            attempts(c) >= 1 /\ sent'[c] # sent[c] =>
               /\ pc[c] = "sleeping"
               /\ ClassifiedRetryable(error[c])
               /\ now >= failedAt[c] + delayMs[c]
               /\ Len(sent'[c]) = attempts(c) + 1
               /\ pc'[c] = "inflight"]_vars

C20_Witness ==
    \E c \in Calls :
        /\ pc[c] = "inflight"
        /\ attempts(c) = 3
        /\ config[c]._retryCount = 2
        /\ now >= 3000

\* everything the model holds about one call
CallState(c) ==
    <<pc[c], op[c], args[c], schema[c], config[c], sent[c], error[c], delayMs[c],
      wakeAt[c], failedAt[c], resData[c], outcome[c], result[c], thrown[c]>>

\* C21: of two calls made concurrently through one client, each has its own
\* retry counter, 0 at its first attempt and one less than its attempts while
\* an attempt is in flight; each makes maxRetries + 1 attempts before a
\* retryable failure is reported, whatever the other call did; and no step of
\* one call (a failure, a retry, a response) changes anything of the other.
C21_IndependentRetryState ==
    /\ [](\A c \in Calls :
            /\ pc[c] = "inflight" => config[c]._retryCount = attempts(c) - 1
            /\ config[c]._retryCount <= retrySettings.maxRetries
            /\ pc[c] = "done" /\ ClassifiedRetryable(error[c]) =>
                  /\ attempts(c) = retrySettings.maxRetries + 1
                  /\ config[c]._retryCount = retrySettings.maxRetries
            /\ pc[c] = "done" /\ error[c] # NoError /\ ~ClassifiedRetryable(error[c]) =>
                  attempts(c) = config[c]._retryCount + 1)
    /\ [][\A c, d \in Calls :
            c # d /\ CallState(c)' # CallState(c) => CallState(d)' = CallState(d)]_vars

C21_Witness ==
    /\ retrySettings.maxRetries = MaxRetriesBound
    /\ pc["c1"] = "done" /\ ClassifiedRetryable(error["c1"])
    /\ attempts("c1") = MaxRetriesBound + 1
    /\ pc["c2"] = "sleeping"
    /\ config["c2"]._retryCount = 1
    /\ attempts("c2") = 1

\* C22: while a call waits for its retry delay, another call made through the
\* same client can start, have its attempt answered and complete; none of that
\* touches the waiting call.
C22_DelayDoesNotBlock ==
    \A c, d \in Calls :
        c # d /\ pc[c] = "sleeping" /\ now < wakeAt[c] =>
            /\ pc[d] = "idle" => ENABLED getSession(d, "sess1")
            /\ pc[d] = "inflight" /\ schema[d] = "SessionSchema" =>
                  /\ ENABLED ReceiveSuccess(d, ValidSession)
                  /\ ENABLED ReceiveNoResponse(d, "ERR_NETWORK")

C22_Witness ==
    \E c, d \in Calls :
        /\ c # d
        /\ pc[c] = "sleeping" /\ now < wakeAt[c]
        /\ pc[d] = "done" /\ outcome[d] = "rejected"
        /\ failedAt[d] > failedAt[c]

\* C23: the retry counter of a call is 0 when the call begins, lies between 0
\* and maxRetries in every state, never decreases, and grows by exactly 1 in
\* exactly the steps that handle a retryable failure with retries left (a
\* retryable failure met at maxRetries ends the call and leaves the counter).
C23_CounterBounds ==
    /\ [](\A c \in Calls :
            /\ 0 <= config[c]._retryCount
            /\ config[c]._retryCount <= retrySettings.maxRetries
            /\ pc[c] = "idle" \/ (pc[c] = "inflight" /\ attempts(c) = 1) =>
                  config[c]._retryCount = 0)
    /\ [][\A c \in Calls :
            /\ config'[c]._retryCount \in
                  {config[c]._retryCount, config[c]._retryCount + 1}
            /\ config'[c]._retryCount = config[c]._retryCount + 1
                  <=> /\ FailureStep(c)
                      /\ ClassifiedRetryable(error'[c])
                      /\ config[c]._retryCount < retrySettings.maxRetries]_vars

C23_Witness ==
    \E c \in Calls :
        /\ op[c] = "getActivity"
        /\ pc[c] = "sleeping"
        /\ config[c]._retryCount = MaxRetriesBound
        /\ attempts(c) = MaxRetriesBound

\* the kinds of outcome a call has ended in
OutcomeKinds(c) ==
    { k \in {"result", "transport", "validation", "precondition"} :
        CASE k = "result" -> outcome[c] = "resolved"
          [] k = "transport" -> outcome[c] = "rejected" /\ IsTransportFailure(thrown[c])
          [] k = "validation" -> outcome[c] = "rejected" /\ IsValidationFailure(thrown[c])
          [] k = "precondition" ->
                outcome[c] = "rejected" /\ IsPreconditionFailure(thrown[c]) }

\* C24: when every attempt is answered and every timer fires, a call that has
\* started ends; it ends in exactly one of: a result (validated, where a schema
\* applies), a transport failure, a validation failure, a precondition failure;
\* a failure of the last attempt or of the validation is never turned into a
\* result, and a call that has ended stays as it ended.
C24_TerminatesInOneOutcome ==
    /\ \A c \in Calls : (pc[c] \in {"inflight", "sleeping"}) ~> (pc[c] = "done")
    /\ [](\A c \in Calls :
            /\ pc[c] = "done" <=> outcome[c] # "pending"
            /\ pc[c] = "done" => Cardinality(OutcomeKinds(c)) = 1
            /\ pc[c] # "done" => OutcomeKinds(c) = {}
            /\ outcome[c] = "resolved" =>
                  /\ thrown[c] = NoThrow /\ error[c] = NoError
                  /\ resData[c] # JUndefined
                  /\ schema[c] # "none" =>
                        /\ Issues(SchemaNamed(schema[c]), resData[c], <<>>) = {}
                        /\ result[c] # JUndefined)
    /\ [][\A c \in Calls : pc[c] = "done" => CallState(c)' = CallState(c)]_vars

C24_Witness ==
    \E c \in Calls :
        /\ pc[c] = "done"
        /\ attempts(c) = 2
        /\ OutcomeKinds(c) = {"validation"}

\* C25: approvePlan and sendMessage validate no response: an attempt of theirs
\* answered with a 2xx status ends the call successfully whatever the body, and
\* neither ever ends in a validation failure; every attempt of approvePlan is
\* POST /sessions/{id}:approvePlan with no body.
C25_NoResponseValidation ==
    \A c \in Calls :
        op[c] \in {"approvePlan", "sendMessage"} =>
            /\ ~IsValidationFailure(thrown[c])
            /\ resData[c] # JUndefined => pc[c] = "done" /\ outcome[c] = "resolved"
            /\ pc[c] = "inflight" =>
                  \A data \in {JObj(EmptyRecord), JStr("<html>")} :
                      ENABLED (ReceiveSuccess(c, data) /\ outcome'[c] = "resolved")
            /\ op[c] = "approvePlan" =>
                  \A i \in 1..Len(sent[c]) :
                      /\ sent[c][i].method = "POST"
                      /\ sent[c][i].url = <<"/sessions/", args[c].sessionId, ":approvePlan">>
                      /\ sent[c][i].data = JUndefined

C25_Witness ==
    \E c \in Calls :
        /\ op[c] = "approvePlan"
        /\ Len(sent[c]) = 2
        /\ outcome[c] = "resolved"
        /\ resData[c] = JStr("<html>")

\* the header value is a whole number of seconds: digits only
IsWholeSeconds(v) == v # <<>> /\ DigitRun(v) = v

\* the header value is an HTTP-date
IsHttpDate(v) == ~DateGetTime(v).nan

\* C26: the delay derived from a Retry-After header is the hint and is never
\* negative: s seconds give s*1000 ms, an HTTP-date gives the time remaining
\* when the failure is handled, a date in the past gives 0; whatever the header
\* holds, the delay the handler computes and the wait before the retry are >= 0.
C26_HintNeverNegative ==
    \A c \in Calls :
        pc[c] = "sleeping" /\ error[c].retryAfter.present =>
            LET v == error[c].retryAfter.value IN
            /\ delayMs[c] >= 0
            /\ wakeAt[c] >= failedAt[c]
            /\ IsWholeSeconds(v) =>
                  /\ delayMs[c] = DecimalValue(v) * 1000
                  /\ wakeAt[c] = failedAt[c] + delayMs[c]
            /\ IsHttpDate(v) =>
                  /\ delayMs[c] = Max(0, DateGetTime(v).n - failedAt[c])
                  /\ wakeAt[c] = failedAt[c] + delayMs[c]

\* the content fields a payload supplies without what their sub-schema
\* requires: the message of agentMessaged / userMessaged, the planId of
\* planApproved, the plan of planGenerated and its id
MalformedContent(x) ==
    { f \in SuppliedContent(x) :
        LET v == Get(x, f) IN
        \/ v.t # "object"
        \/ f = "agentMessaged" /\ Get(v, "agentMessage").t # "string"
        \/ f = "userMessaged" /\ Get(v, "userMessage").t # "string"
        \/ f = "planApproved" /\ Get(v, "planId").t # "string"
        \/ f = "planGenerated" /\ Get(v, "plan").t # "object"
        \/ f = "planGenerated" /\ Get(Get(v, "plan"), "id").t # "string" }

\* C27: every content field an activity payload supplies is validated against
\* its sub-schema: a payload with valid base fields fails validation when a
\* supplied content field is malformed, also when another, well-formed content
\* field is supplied beside it, and the failure names the malformed field; the
\* content fields it leaves out constrain nothing.
C27_PresentContentValidated ==
    \A c \in Calls :
        /\ ActivityAnswered(c)
        /\ ValidBaseFields(resData[c])
        /\ Get(resData[c], "artifacts").t = "undefined"
        /\ SuppliedContent(resData[c]) # {}
        => IF MalformedContent(resData[c]) # {}
           THEN /\ outcome[c] = "rejected"
                /\ IsValidationFailure(thrown[c])
                /\ \A f \in MalformedContent(resData[c]) :
                      \E i \in thrown[c].zodError : i.path # <<>> /\ Head(i.path) = f
                /\ \A i \in thrown[c].zodError :
                      i.path # <<>> /\ Head(i.path) \in MalformedContent(resData[c])
           ELSE outcome[c] = "resolved"

C27_Witness ==
    \E c \in Calls :
        /\ ActivityAnswered(c)
        /\ MalformedContent(resData[c]) = {"agentMessaged"}
        /\ SuppliedContent(resData[c]) = {"agentMessaged", "progressUpdated"}
        /\ outcome[c] = "rejected"

\* the call is one of the two that POST without validation
PostsCommand(c) == op[c] \in {"sendMessage", "approvePlan"}

\* C28: the POST of sendMessage and approvePlan goes through the retry loop as
\* every request does: a retryable failure of it (a timeout with no response
\* included) met with retries left schedules a retry, the retry puts the same
\* POST on the wire again, up to maxRetries times, so the service may be sent
\* one message several times; a client constructed without a retryConfig sends
\* it once at most.
C28_PostIsRetried ==
    /\ [](\A c \in Calls :
            PostsCommand(c) =>
                /\ attempts(c) <= retrySettings.maxRetries + 1
                /\ DefaultClient => attempts(c) <= 1
                /\ \A i \in 1..attempts(c) :
                      sent[c][i].method = "POST" /\ sent[c][i] = sent[c][1])
    /\ [][\A c \in Calls :
            PostsCommand(c) =>
                /\ FailureStep(c) /\ attempts(c) <= retrySettings.maxRetries
                      /\ (~error'[c].hasResponse \/ InRetryableSet(error'[c]))
                      => pc'[c] = "sleeping"
                /\ RetryStep(c) => sent'[c] = Append(sent[c], sent[c][1])]_vars

C28_Witness ==
    \E c \in Calls :
        /\ op[c] = "sendMessage"
        /\ attempts(c) = MaxRetriesBound + 1
        /\ pc[c] = "done" /\ outcome[c] = "rejected"
        /\ error[c].code = "ECONNABORTED"
        /\ sent[c][MaxRetriesBound + 1].data = JObj([prompt |-> JStr(<<"a">>)])

\* the failure carries a Retry-After header holding seconds or an HTTP-date
HasHint(err) ==
    /\ err.hasResponse /\ err.retryAfter.present
    /\ IsWholeSeconds(err.retryAfter.value) \/ IsHttpDate(err.retryAfter.value)

\* what the header asks for, in ms, read at time t
HintMs(err, t) ==
    IF IsWholeSeconds(err.retryAfter.value)
    THEN DecimalValue(err.retryAfter.value) * 1000
    ELSE Max(0, DateGetTime(err.retryAfter.value).n - t)

\* C29: when the failure of an attempt is going to be retried and carries a
\* Retry-After header holding seconds or a date, the delay is the hint, whatever
\* the status of the failure (429, 503, ...) and whether or not the hint exceeds
\* maxDelayMs, and the retry waits that long; without a header the delay is at
\* most maxDelayMs; when the failure is not retried no delay is derived from the
\* header.
C29_HintForAnyStatusUncapped ==
    [][\A c \in Calls :
         FailureStep(c) =>
            IF pc'[c] = "sleeping"
            THEN /\ HasHint(error'[c]) =>
                       /\ delayMs'[c] = HintMs(error'[c], now)
                       /\ wakeAt'[c] = now + delayMs'[c]
                 /\ ~(error'[c].hasResponse /\ error'[c].retryAfter.present) =>
                       delayMs'[c] <= retrySettings.maxDelayMs
            ELSE /\ pc'[c] = "done"
                 /\ delayMs'[c] = 0 /\ wakeAt'[c] = 0]_vars

C29_Witness ==
    \E c \in Calls :
        /\ pc[c] = "sleeping"
        /\ error[c].status = 503
        /\ error[c].retryAfter = Header(<<"2">>)
        /\ retrySettings.maxDelayMs = 1500
        /\ delayMs[c] = 2000
        /\ wakeAt[c] = failedAt[c] + 2000

\* the keys SessionSchema declares and the states SessionStateEnum lists
DeclaredSessionKeys ==
    {"name", "id", "createTime", "updateTime", "state", "url", "prompt", "sourceContext",
     "title", "requirePlanApproval", "automationMode", "outputs"}
NineStates ==
    {"STATE_UNSPECIFIED", "QUEUED", "PLANNING", "AWAITING_PLAN_APPROVAL",
     "AWAITING_USER_FEEDBACK", "IN_PROGRESS", "PAUSED", "FAILED", "COMPLETED"}

UndeclaredKeys(x) == (DOMAIN x.v) \ DeclaredSessionKeys
UnknownState(x) == Get(x, "state").t = "string" /\ Get(x, "state").v \notin NineStates

\* a Session object the strict schema cannot accept
OutsideSessionSchema(x) == x.t = "object" /\ (UndeclaredKeys(x) # {} \/ UnknownState(x))

\* the issues a failed validation reports for Session x found at `path`
ReportsSession(issues, x, path) ==
    /\ UndeclaredKeys(x) # {} =>
          UnrecognizedKeys(path, UndeclaredKeys(x)) \in issues
    /\ UnknownState(x) =>
          Issue(Append(path, "state"), "invalid_enum_value") \in issues

\* C30: the Session schema is strict: a Session payload with an undeclared
\* top-level key, or with a `state` outside the nine listed, fails validation
\* even when every required field is there, so getSession and createSession
\* reject with a validation failure, and so does listSessions when any session
\* of the list is such a payload.
C30_SessionSchemaStrict ==
    \A c \in Calls :
        pc[c] = "done" /\ resData[c].t = "object" =>
            /\ op[c] \in {"getSession", "createSession"} /\ OutsideSessionSchema(resData[c]) =>
                  /\ outcome[c] = "rejected"
                  /\ IsValidationFailure(thrown[c])
                  /\ ReportsSession(thrown[c].zodError, resData[c], <<>>)
            /\ op[c] = "listSessions" /\ Get(resData[c], "sessions").t = "array" =>
                  \A i \in 1..Len(Get(resData[c], "sessions").v) :
                      LET x == Get(resData[c], "sessions").v[i] IN
                      OutsideSessionSchema(x) =>
                          /\ outcome[c] = "rejected"
                          /\ IsValidationFailure(thrown[c])
                          /\ ReportsSession(thrown[c].zodError, x,
                                            <<"sessions", ToString(i - 1)>>)

C30_Witness ==
    \E c \in Calls :
        /\ op[c] = "listSessions"
        /\ pc[c] = "done"
        /\ resData[c] =
              JObj([sessions |-> JArr(<<ValidSession, With(ValidSession, "etag", JStr("abc"))>>)])
        /\ thrown[c].zodError = {UnrecognizedKeys(<<"sessions", "1">>, {"etag"})}

=============================================================================
